---- MODULE Spec2Model ----
(***************************************************************************)
(* Payment reconciliation engine of RentTracker: PaymentMatcher matches    *)
(* bank transactions to garage rental obligations, StatusDeterminer        *)
(* classifies obligations without a payment, DateCalculator computes the   *)
(* expected payment date.                                                  *)
(*                                                                         *)
(* Dates are records [year, month, day]; date differences and comparisons  *)
(* go through the proleptic Gregorian ordinal, as datetime.date does.      *)
(* Amounts are Decimal values with two places, held as integers of cents.  *)
(* A note is the sequence of the pieces the code concatenates; a piece is  *)
(* a message template with the arguments it is formatted with.             *)
(***************************************************************************)
EXTENDS Integers, Sequences, FiniteSets, TLC

VARIABLES matcher, garages, transactions, analysis_date, target_month,
          amount_conflicts, payments, used_transactions, selected, pc,
          status_call, date_call, report_call, use_case, garage_call, runs

\* the arguments and the result of a call of StatusDeterminer, of
\* DateCalculator, of PaymentReport.create, of ProcessPaymentsUseCase and of
\* the constructor of Garage; the lists match_payments returned so far
others == <<status_call, date_call, report_call, use_case, garage_call, runs>>

vars == <<matcher, garages, transactions, analysis_date, target_month,
          amount_conflicts, payments, used_transactions, selected, pc,
          status_call, date_call, report_call, use_case, garage_call, runs>>

\* the value of a variable of a component that takes no part in a run
Idle == "idle"

(***************************************************************************)
(* Bounds of the model and the input values it draws from.                 *)
(***************************************************************************)
MaxGarages == 2

MaxTransactions == 3

D(y, m, d) == [year |-> y, month |-> m, day |-> d]

\* None where the code has Optional[date]
NoDate == D(0, 0, 0)

\* (payment_day, monthly_rent in cents)
GarageValues == { <<15, 350000>>, <<16, 350000>>, <<15, 350002>> }

\* (date, amount in cents): before the search window of January 15/16 and
\* inside it on both sides of the expected date; 3500.01 is within the
\* tolerance of both rents, 3500.00 only of the first
TxValues == { <<D(2025, 1, 5), 350000>>, <<D(2025, 1, 14), 350001>>,
              <<D(2025, 1, 16), 350000>> }

TxCategory == "Transfer"

\* PaymentMatcher.__init__ defaults
SearchWindowDays == 7

GracePeriodDays == 3

\* PaymentMatcher(search_window_days, grace_period_days)
PaymentMatcher(search_window_days, grace_period_days) ==
    [search_window_days |-> search_window_days,
     grace_period_days |-> grace_period_days]

DefaultMatcher == PaymentMatcher(SearchWindowDays, GracePeriodDays)

\* the matcher of test_payment_matcher_custom_windows
CustomMatcher == PaymentMatcher(10, 5)

\* (analysis_date, target_month argument, matcher); NoDate is target_month=None
RunValues == { <<D(2025, 1, 15), NoDate, DefaultMatcher>>,
               <<D(2025, 1, 20), NoDate, DefaultMatcher>>,
               <<D(2025, 2, 3), NoDate, DefaultMatcher>>,
               <<D(2025, 2, 3), D(2025, 1, 31), DefaultMatcher>>,
               <<D(2025, 1, 20), NoDate, CustomMatcher>> }

(***************************************************************************)
(* datetime.date arithmetic                                                *)
(***************************************************************************)
IsLeap(y) == (y % 4 = 0) /\ ((y % 100 # 0) \/ (y % 400 = 0))

\* calendar.monthrange(year, month)[1]
DaysInMonth(y, m) ==
    IF m = 2 THEN (IF IsLeap(y) THEN 29 ELSE 28)
    ELSE IF m \in {4, 6, 9, 11} THEN 30 ELSE 31

\* days of the year before the first day of the month
DaysBeforeMonth(y, m) ==
    << 0, 31, 59, 90, 120, 151, 181, 212, 243, 273, 304, 334 >>[m]
    + (IF m > 2 /\ IsLeap(y) THEN 1 ELSE 0)

DaysBeforeYear(y) ==
    (y - 1) * 365 + ((y - 1) \div 4) - ((y - 1) \div 100) + ((y - 1) \div 400)

\* date.toordinal(); (a - b).days == Ord(a) - Ord(b)
Ord(d) == DaysBeforeYear(d.year) + DaysBeforeMonth(d.year, d.month) + d.day

Abs(x) == IF x < 0 THEN -x ELSE x

(***************************************************************************)
(* Models: Garage, Transaction, Payment                                    *)
(***************************************************************************)
\* Garage.__post_init__: the object exists only when this holds
GarageValid(g) ==
    /\ g.id # ""
    /\ g.monthly_rent > 0
    /\ 1 <= g.payment_day /\ g.payment_day <= 31

\* Transaction.__post_init__
TransactionValid(t) == t.amount > 0 /\ t.category # ""

\* default tolerance of Transaction.matches_amount, Decimal('0.01'), in cents
AmountTolerance == 1

\* variant: the amounts have to be equal
MatchesAmount_Exact(t, target_amount) == t.amount = target_amount

\* Transaction.matches_amount(target_amount)
MatchesAmount(t, target_amount) ==
    Abs(t.amount - target_amount) <= AmountTolerance

\* Payment.__post_init__: the constructor raises ValueError otherwise
PaymentValid(p) == p.garage_id # "" /\ p.amount > 0

\* date(year, month, day) raises ValueError otherwise
DateValid(d) ==
    /\ 1 <= d.month /\ d.month <= 12
    /\ 1 <= d.day /\ d.day <= DaysInMonth(d.year, d.month)

\* Payment(...) with the dataclass defaults for the fields left out
Payment(garage_id, amount, expected_date, actual_date, status, days_overdue, notes) ==
    [garage_id |-> garage_id, amount |-> amount, expected_date |-> expected_date,
     actual_date |-> actual_date, status |-> status,
     days_overdue |-> days_overdue, notes |-> notes]

(***************************************************************************)
(* LocalizationManager.get and the string pieces of a note                 *)
(***************************************************************************)
\* i18n.get(key, default=..., garages=..., count=...): no notes.* key is in
\* the default messages, so the default template is formatted
I18nGet(key, default, garageIds, count) ==
    [key |-> key, text |-> default, garages |-> garageIds, count |-> count]

\* a string literal or f-string of the code
Lit(text, garageIds) == [key |-> "", text |-> text, garages |-> garageIds, count |-> 0]

(***************************************************************************)
(* DateCalculator                                                          *)
(***************************************************************************)
\* variant: the payment day is used as it is
CalculateExpectedDate_Unclamped(garage, tm) ==
    D(tm.year, tm.month, garage.payment_day)

CalculateExpectedDate(garage, tm) ==
    LET days_in_month == DaysInMonth(tm.year, tm.month)
    IN  IF garage.payment_day <= days_in_month
        THEN D(tm.year, tm.month, garage.payment_day)
        ELSE D(tm.year, tm.month, days_in_month)

\* variant: the month after December is January of the same year
GetNextPaymentDate_SameYear(garage, from_date) ==
    LET current_month == D(from_date.year, from_date.month, 1)
        expected_date == CalculateExpectedDate(garage, current_month)
    IN  IF Ord(expected_date) < Ord(from_date)
        THEN CalculateExpectedDate(garage,
                 IF current_month.month = 12
                 THEN D(current_month.year, 1, 1)
                 ELSE D(current_month.year, current_month.month + 1, 1))
        ELSE expected_date

\* get_next_payment_date with from_date given, lines 49-75
GetNextPaymentDate(garage, from_date) ==
    LET current_month == D(from_date.year, from_date.month, 1)
        expected_date == CalculateExpectedDate(garage, current_month)
    IN  IF Ord(expected_date) < Ord(from_date)
        THEN CalculateExpectedDate(garage,
                 IF current_month.month = 12
                 THEN D(current_month.year + 1, 1, 1)
                 ELSE D(current_month.year, current_month.month + 1, 1))
        ELSE expected_date

(***************************************************************************)
(* StatusDeterminer.determine_status                                       *)
(***************************************************************************)
\* early days of the acceptable window, timedelta(days=7)
AcceptableEarlyDays == 7

\* variant: the last day of the grace period already counts as overdue
DetermineStatus_StrictGrace(grace, expected_date, ad, has_payment, actual_payment_date, has_multiple_payments) ==
    IF has_multiple_payments THEN [status |-> "UNCLEAR", days |-> 0]
    ELSE IF has_payment THEN
        IF actual_payment_date # NoDate THEN
            IF /\ Ord(expected_date) - AcceptableEarlyDays <= Ord(actual_payment_date)
               /\ Ord(actual_payment_date) <= Ord(expected_date) + grace
            THEN [status |-> "RECEIVED",
                  days |-> Ord(actual_payment_date) - Ord(expected_date)]
            ELSE [status |-> "UNCLEAR", days |-> 0]
        ELSE [status |-> "RECEIVED", days |-> 0]
    ELSE IF Ord(ad) < Ord(expected_date) THEN [status |-> "NOT_DUE", days |-> 0]
    ELSE IF Ord(ad) < Ord(expected_date) + grace
        THEN [status |-> "PENDING", days |-> Ord(ad) - Ord(expected_date)]
    ELSE [status |-> "OVERDUE", days |-> Ord(ad) - Ord(expected_date)]

\* variant: the overdue offset is counted from the end of the grace period
DetermineStatus_PastGrace(grace, expected_date, ad, has_payment, actual_payment_date, has_multiple_payments) ==
    IF has_multiple_payments THEN [status |-> "UNCLEAR", days |-> 0]
    ELSE IF has_payment THEN
        IF actual_payment_date # NoDate THEN
            IF /\ Ord(expected_date) - AcceptableEarlyDays <= Ord(actual_payment_date)
               /\ Ord(actual_payment_date) <= Ord(expected_date) + grace
            THEN [status |-> "RECEIVED",
                  days |-> Ord(actual_payment_date) - Ord(expected_date)]
            ELSE [status |-> "UNCLEAR", days |-> 0]
        ELSE [status |-> "RECEIVED", days |-> 0]
    ELSE IF Ord(ad) < Ord(expected_date) THEN [status |-> "NOT_DUE", days |-> 0]
    ELSE IF Ord(ad) <= Ord(expected_date) + grace
        THEN [status |-> "PENDING", days |-> Ord(ad) - Ord(expected_date)]
    ELSE [status |-> "OVERDUE", days |-> Ord(ad) - (Ord(expected_date) + grace)]

\* variant: a payment with a date is received wherever the date lies
DetermineStatus_NoWindow(grace, expected_date, ad, has_payment, actual_payment_date, has_multiple_payments) ==
    IF has_multiple_payments THEN [status |-> "UNCLEAR", days |-> 0]
    ELSE IF has_payment THEN
        IF actual_payment_date # NoDate
        THEN [status |-> "RECEIVED",
              days |-> Ord(actual_payment_date) - Ord(expected_date)]
        ELSE [status |-> "RECEIVED", days |-> 0]
    ELSE IF Ord(ad) < Ord(expected_date) THEN [status |-> "NOT_DUE", days |-> 0]
    ELSE IF Ord(ad) <= Ord(expected_date) + grace
        THEN [status |-> "PENDING", days |-> Ord(ad) - Ord(expected_date)]
    ELSE [status |-> "OVERDUE", days |-> Ord(ad) - Ord(expected_date)]

\* variant: has_payment is looked at before has_multiple_payments
DetermineStatus_PaymentFirst(grace, expected_date, ad, has_payment, actual_payment_date, has_multiple_payments) ==
    IF has_payment THEN
        IF actual_payment_date # NoDate THEN
            IF /\ Ord(expected_date) - AcceptableEarlyDays <= Ord(actual_payment_date)
               /\ Ord(actual_payment_date) <= Ord(expected_date) + grace
            THEN [status |-> "RECEIVED",
                  days |-> Ord(actual_payment_date) - Ord(expected_date)]
            ELSE [status |-> "UNCLEAR", days |-> 0]
        ELSE [status |-> "RECEIVED", days |-> 0]
    ELSE IF has_multiple_payments THEN [status |-> "UNCLEAR", days |-> 0]
    ELSE IF Ord(ad) < Ord(expected_date) THEN [status |-> "NOT_DUE", days |-> 0]
    ELSE IF Ord(ad) <= Ord(expected_date) + grace
        THEN [status |-> "PENDING", days |-> Ord(ad) - Ord(expected_date)]
    ELSE [status |-> "OVERDUE", days |-> Ord(ad) - Ord(expected_date)]

DetermineStatus(grace, expected_date, ad, has_payment, actual_payment_date, has_multiple_payments) ==
    IF has_multiple_payments THEN [status |-> "UNCLEAR", days |-> 0]
    ELSE IF has_payment THEN
        IF actual_payment_date # NoDate THEN
            IF /\ Ord(expected_date) - AcceptableEarlyDays <= Ord(actual_payment_date)
               /\ Ord(actual_payment_date) <= Ord(expected_date) + grace
            THEN [status |-> "RECEIVED",
                  days |-> Ord(actual_payment_date) - Ord(expected_date)]
            ELSE [status |-> "UNCLEAR", days |-> 0]
        ELSE [status |-> "RECEIVED", days |-> 0]
    ELSE IF Ord(ad) < Ord(expected_date) THEN [status |-> "NOT_DUE", days |-> 0]
    ELSE IF Ord(ad) <= Ord(expected_date) + grace
        THEN [status |-> "PENDING", days |-> Ord(ad) - Ord(expected_date)]
    ELSE [status |-> "OVERDUE", days |-> Ord(ad) - Ord(expected_date)]

(***************************************************************************)
(* PaymentMatcher                                                          *)
(***************************************************************************)
Indices(seq) == [i \in 1..Len(seq) |-> i]

\* the garage ids of amount_map[amount], in input order
IdsWithRent(gs, amount) ==
    LET idx == SelectSeq(Indices(gs), LAMBDA i : gs[i].monthly_rent = amount)
    IN  [k \in 1..Len(idx) |-> gs[idx[k]].id]

\* _find_amount_conflicts: only the amounts of more than one garage are kept
FindAmountConflicts(gs) ==
    LET amounts == { gs[i].monthly_rent : i \in 1..Len(gs) }
    IN  [a \in { b \in amounts : Len(IdsWithRent(gs, b)) > 1 } |-> IdsWithRent(gs, a)]

\* amount_conflicts.get(garage.monthly_rent, [])
ConflictsGet(conflicts, amount) ==
    IF amount \in DOMAIN conflicts THEN conflicts[amount] ELSE <<>>

\* min(iterable, key=...) over the keys of the candidates: the first element
\* with the smallest key (a later element replaces the best only when smaller)
RECURSIVE MinScan(_, _, _)
MinScan(keys, i, best) ==
    IF i > Len(keys) THEN best
    ELSE MinScan(keys, i + 1, IF keys[i] < keys[best] THEN i ELSE best)

\* variant: among equal keys the last one wins
RECURSIVE MinScanLast(_, _, _)
MinScanLast(keys, i, best) ==
    IF i > Len(keys) THEN best
    ELSE MinScanLast(keys, i + 1, IF keys[i] <= keys[best] THEN i ELSE best)

FirstMin_LastOfTies(keys) == MinScanLast(keys, 2, 1)

FirstMin(keys) == MinScan(keys, 2, 1)

\* candidates of _find_best_match, as indices into transactions (the index
\* stands for id(transaction))
\* variant: used transactions stay candidates
NarrowCandidates_Reuse(self, amount, expected_date, txs, used, ad) ==
    LET start_date == Ord(expected_date) - self.search_window_days
        end_date == Ord(expected_date) + self.grace_period_days
    IN  SelectSeq(Indices(txs), LAMBDA i :
            /\ MatchesAmount(txs[i], amount)
            /\ start_date <= Ord(txs[i].date) /\ Ord(txs[i].date) <= end_date
            /\ Ord(txs[i].date) <= Ord(ad))

NarrowCandidates(self, amount, expected_date, txs, used, ad) ==
    LET start_date == Ord(expected_date) - self.search_window_days
        end_date == Ord(expected_date) + self.grace_period_days
    IN  SelectSeq(Indices(txs), LAMBDA i :
            /\ i \notin used
            /\ MatchesAmount(txs[i], amount)
            /\ start_date <= Ord(txs[i].date) /\ Ord(txs[i].date) <= end_date
            /\ Ord(txs[i].date) <= Ord(ad))

\* variant: used transactions stay candidates of the wide search
FallbackCandidates_Reuse(amount, txs, used, ad) ==
    SelectSeq(Indices(txs), LAMBDA i :
        /\ MatchesAmount(txs[i], amount)
        /\ Ord(txs[i].date) <= Ord(ad))

\* variant: the whole statement, also after the analysis date
FallbackCandidates_Future(amount, txs, used, ad) ==
    SelectSeq(Indices(txs), LAMBDA i :
        /\ i \notin used
        /\ MatchesAmount(txs[i], amount))

\* candidates of _find_fallback_match
FallbackCandidates(amount, txs, used, ad) ==
    SelectSeq(Indices(txs), LAMBDA i :
        /\ i \notin used
        /\ MatchesAmount(txs[i], amount)
        /\ Ord(txs[i].date) <= Ord(ad))

\* variant: the narrow search is left out, every match comes from the
\* wide search
FindBestMatch_Skipped(self, amount, expected_date, txs, used, conflicting_garages, ad) ==
    [tx |-> 0, info |-> <<>>]

\* _find_best_match: (transaction, conflict_info); tx = 0 is None
FindBestMatch(self, amount, expected_date, txs, used, conflicting_garages, ad) ==
    LET candidates == NarrowCandidates(self, amount, expected_date, txs, used, ad)
        keys == [k \in 1..Len(candidates) |->
                    Abs(Ord(txs[candidates[k]].date) - Ord(expected_date))]
    IN  IF Len(candidates) = 0 THEN [tx |-> 0, info |-> <<>>]
        ELSE IF Len(candidates) = 1 THEN
            [tx |-> candidates[1],
             info |-> IF Len(conflicting_garages) > 0
                      THEN << Lit("Amount conflict with garages: {garages}",
                                  conflicting_garages) >>
                      ELSE <<>>]
        ELSE
            [tx |-> candidates[FirstMin(keys)],
             info |-> << I18nGet("notes.multiple_matches", "Multiple matches found", <<>>, 0),
                         Lit(", ", <<>>),
                         I18nGet("notes.closest_match",
                                 "selected closest to expected date", <<>>, 0) >>
                      \o (IF Len(conflicting_garages) > 0
                          THEN << Lit(". ", <<>>),
                                  I18nGet("notes.amount_shared",
                                          "Amount conflict with garages: {garages}",
                                          conflicting_garages, 0) >>
                          ELSE <<>>)]

\* variant: several candidates, the first of the list is taken
FindFallbackMatch_First(amount, txs, used, conflicting_garages, ad) ==
    LET candidates == FallbackCandidates(amount, txs, used, ad)
    IN  IF Len(candidates) = 0 THEN [tx |-> 0, info |-> <<>>]
        ELSE [tx |-> candidates[1],
              info |-> << I18nGet("notes.wide_search_earliest",
                                  "Wide search - earliest of {count} matches",
                                  <<>>, Len(candidates)) >>]

\* variant: the wide search never finds anything
FindFallbackMatch_Disabled(amount, txs, used, conflicting_garages, ad) ==
    [tx |-> 0, info |-> <<>>]

\* _find_fallback_match
FindFallbackMatch(amount, txs, used, conflicting_garages, ad) ==
    LET candidates == FallbackCandidates(amount, txs, used, ad)
        keys == [k \in 1..Len(candidates) |-> Ord(txs[candidates[k]].date)]
    IN  IF Len(candidates) = 0 THEN [tx |-> 0, info |-> <<>>]
        ELSE IF Len(candidates) = 1 THEN
            [tx |-> candidates[1],
             info |-> IF Len(conflicting_garages) > 0
                      THEN << I18nGet("notes.wide_search_shared",
                                "Wide search match (amount shared with garages: {garages})",
                                conflicting_garages, 0) >>
                      ELSE << I18nGet("notes.wide_search", "Wide search match", <<>>, 0) >>]
        ELSE
            [tx |-> candidates[FirstMin(keys)],
             info |-> << I18nGet("notes.wide_search_earliest",
                                 "Wide search - earliest of {count} matches",
                                 <<>>, Len(candidates)) >>
                      \o (IF Len(conflicting_garages) > 0
                          THEN << Lit(" (", <<>>),
                                  I18nGet("notes.amount_shared",
                                          "amount shared with garages: {garages}",
                                          conflicting_garages, 0),
                                  Lit(")", <<>>) >>
                          ELSE <<>>)]

\* variant: the status and offset come from the classifier's window rule
CreateMatchedPayment_Classified(payment, transaction, conflict_info) ==
    LET r == DetermineStatus(GracePeriodDays, payment.expected_date,
                             transaction.date, TRUE, transaction.date, FALSE)
    IN  Payment(payment.garage_id, payment.amount, payment.expected_date,
                transaction.date, r.status, r.days,
                IF Len(conflict_info) > 0 THEN conflict_info
                ELSE << I18nGet("notes.payment_matched", "Payment matched", <<>>, 0) >>)

\* variant: a match chosen among several candidates is classified as the
\* status determiner classifies multiple payments
CreateMatchedPayment_MultipleUnclear(payment, transaction, conflict_info) ==
    LET several == \E k \in 1..Len(conflict_info) :
                      conflict_info[k].key \in {"notes.multiple_matches",
                                                "notes.wide_search_earliest"}
        r == DetermineStatus(GracePeriodDays, payment.expected_date,
                             transaction.date, TRUE, NoDate, several)
    IN  Payment(payment.garage_id, payment.amount, payment.expected_date,
                transaction.date, r.status,
                Ord(transaction.date) - Ord(payment.expected_date),
                IF Len(conflict_info) > 0 THEN conflict_info
                ELSE << I18nGet("notes.payment_matched", "Payment matched", <<>>, 0) >>)

\* variant: the offset is the distance in days, without its sign
CreateMatchedPayment_Unsigned(payment, transaction, conflict_info) ==
    Payment(payment.garage_id, payment.amount, payment.expected_date,
            transaction.date,
            "RECEIVED",
            Abs(Ord(transaction.date) - Ord(payment.expected_date)),
            IF Len(conflict_info) > 0 THEN conflict_info
            ELSE << I18nGet("notes.payment_matched", "Payment matched", <<>>, 0) >>)

\* _create_matched_payment
CreateMatchedPayment(payment, transaction, conflict_info) ==
    Payment(payment.garage_id, payment.amount, payment.expected_date,
            transaction.date,
            "RECEIVED",
            Ord(transaction.date) - Ord(payment.expected_date),
            IF Len(conflict_info) > 0 THEN conflict_info
            ELSE << I18nGet("notes.payment_matched", "Payment matched", <<>>, 0) >>)

\* variant: StatusDeterminer() with its default grace period
CreateUnmatchedPayment_DefaultGrace(self, payment, ad) ==
    LET r == DetermineStatus(GracePeriodDays, payment.expected_date, ad,
                             FALSE, NoDate, FALSE)
    IN  Payment(payment.garage_id, payment.amount, payment.expected_date,
                NoDate, r.status, r.days,
                << I18nGet("notes.no_payment", "No matching payment found", <<>>, 0) >>)

\* _create_unmatched_payment
CreateUnmatchedPayment(self, payment, ad) ==
    LET r == DetermineStatus(self.grace_period_days, payment.expected_date, ad,
                             FALSE, NoDate, FALSE)
    IN  Payment(payment.garage_id, payment.amount, payment.expected_date,
                NoDate, r.status, r.days,
                << I18nGet("notes.no_payment", "No matching payment found", <<>>, 0) >>)

\* variant: the selected transaction is not marked as used
LoopBody_NoConsume(self, st, garage, txs, conflicts, ad, tm) ==
    LET expected_date == CalculateExpectedDate(garage, tm)
        conflicting == ConflictsGet(conflicts, garage.monthly_rent)
        narrow == FindBestMatch(self, garage.monthly_rent, expected_date, txs,
                                st.used, conflicting, ad)
        found == IF narrow.tx = 0
                 THEN FindFallbackMatch(garage.monthly_rent, txs, st.used,
                                        conflicting, ad)
                 ELSE narrow
        via == IF narrow.tx # 0 THEN "narrow"
               ELSE IF found.tx # 0 THEN "fallback" ELSE "none"
        payment == Payment(garage.id, garage.monthly_rent, expected_date,
                           NoDate, "NOT_DUE", 0, <<>>)
    IN  IF found.tx # 0
        THEN [payments |-> Append(st.payments,
                              CreateMatchedPayment(payment, txs[found.tx], found.info)),
              used |-> st.used,
              selected |-> Append(st.selected, [tx |-> found.tx, via |-> via])]
        ELSE [payments |-> Append(st.payments, CreateUnmatchedPayment(self, payment, ad)),
              used |-> st.used,
              selected |-> Append(st.selected, [tx |-> 0, via |-> via])]

\* variant: an obligation without a transaction gets no outcome
LoopBody_DropsUnmatched(self, st, garage, txs, conflicts, ad, tm) ==
    LET expected_date == CalculateExpectedDate(garage, tm)
        conflicting == ConflictsGet(conflicts, garage.monthly_rent)
        narrow == FindBestMatch(self, garage.monthly_rent, expected_date, txs,
                                st.used, conflicting, ad)
        found == IF narrow.tx = 0
                 THEN FindFallbackMatch(garage.monthly_rent, txs, st.used,
                                        conflicting, ad)
                 ELSE narrow
        via == IF narrow.tx # 0 THEN "narrow"
               ELSE IF found.tx # 0 THEN "fallback" ELSE "none"
        payment == Payment(garage.id, garage.monthly_rent, expected_date,
                           NoDate, "NOT_DUE", 0, <<>>)
    IN  IF found.tx # 0
        THEN [payments |-> Append(st.payments,
                              CreateMatchedPayment(payment, txs[found.tx], found.info)),
              used |-> st.used \cup {found.tx},
              selected |-> Append(st.selected, [tx |-> found.tx, via |-> via])]
        ELSE [payments |-> st.payments,
              used |-> st.used,
              selected |-> Append(st.selected, [tx |-> 0, via |-> via])]

\* One iteration of the loop of match_payments over `garage`. st holds the
\* locals that outlive the iteration: payments, used (used_transactions) and
\* selected, the record of the iteration's `transaction` and of the search
\* that returned it.
LoopBody(self, st, garage, txs, conflicts, ad, tm) ==
    LET expected_date == CalculateExpectedDate(garage, tm)
        conflicting == ConflictsGet(conflicts, garage.monthly_rent)
        narrow == FindBestMatch(self, garage.monthly_rent, expected_date, txs,
                                st.used, conflicting, ad)
        found == IF narrow.tx = 0
                 THEN FindFallbackMatch(garage.monthly_rent, txs, st.used,
                                        conflicting, ad)
                 ELSE narrow
        via == IF narrow.tx # 0 THEN "narrow"
               ELSE IF found.tx # 0 THEN "fallback" ELSE "none"
        payment == Payment(garage.id, garage.monthly_rent, expected_date,
                           NoDate, "NOT_DUE", 0, <<>>)
    IN  IF found.tx # 0
        THEN [payments |-> Append(st.payments,
                              CreateMatchedPayment(payment, txs[found.tx], found.info)),
              used |-> st.used \cup {found.tx},
              selected |-> Append(st.selected, [tx |-> found.tx, via |-> via])]
        ELSE [payments |-> Append(st.payments, CreateUnmatchedPayment(self, payment, ad)),
              used |-> st.used,
              selected |-> Append(st.selected, [tx |-> 0, via |-> via])]

\* target_month as the loop uses it (lines 57-58)
EffectiveTargetMonth(ad, tm) ==
    IF tm = NoDate THEN D(ad.year, ad.month, 1) ELSE tm

EmptyRun == [payments |-> <<>>, used |-> {}, selected |-> <<>>]

\* the whole loop over gs, from the state st
RECURSIVE RunLoop(_, _, _, _, _, _, _)
RunLoop(self, st, gs, txs, conflicts, ad, tm) ==
    IF Len(gs) = 0 THEN st
    ELSE RunLoop(self, LoopBody(self, st, Head(gs), txs, conflicts, ad, tm),
                 Tail(gs), txs, conflicts, ad, tm)

\* match_payments as a function of its arguments
\* variant: the consumed set of the previous run is kept
MatchPayments_KeepsUsed(self, gs, txs, ad, tm) ==
    RunLoop(self, [EmptyRun EXCEPT !.used = used_transactions], gs, txs,
            FindAmountConflicts(gs), ad, EffectiveTargetMonth(ad, tm))

MatchPayments(self, gs, txs, ad, tm) ==
    RunLoop(self, EmptyRun, gs, txs, FindAmountConflicts(gs), ad,
            EffectiveTargetMonth(ad, tm))

(***************************************************************************)
(* The run of match_payments as a state machine                            *)
(***************************************************************************)
SeqsUpTo(S, n) == UNION { [1..k -> S] : k \in 0..n }

\* lists of valid Garage objects; the registry numbers the garages "1", "2", ...
GarageLists ==
    { [i \in 1..Len(vs) |-> [id |-> ToString(i), monthly_rent |-> vs[i][2],
                             payment_day |-> vs[i][1]]] :
      vs \in SeqsUpTo(GarageValues, MaxGarages) }

TransactionLists ==
    { [i \in 1..Len(vs) |-> [date |-> vs[i][1], amount |-> vs[i][2],
                             category |-> TxCategory]] :
      vs \in SeqsUpTo(TxValues, MaxTransactions) }

Init ==
    /\ garages \in GarageLists
    /\ transactions \in TransactionLists
    /\ \E rv \in RunValues :
          analysis_date = rv[1] /\ target_month = rv[2] /\ matcher = rv[3]
    /\ amount_conflicts = <<>>
    /\ payments = <<>>
    /\ used_transactions = {}
    /\ selected = <<>>
    /\ pc = "start"
    /\ status_call = Idle /\ date_call = Idle
    /\ report_call = Idle /\ use_case = Idle
    /\ garage_call = Idle /\ runs = <<>>

\* lines 52-58: the locals are set up and target_month gets its default
Begin ==
    /\ pc = "start"
    /\ payments' = <<>>
    /\ used_transactions' = {}
    /\ selected' = <<>>
    /\ amount_conflicts' = FindAmountConflicts(garages)
    /\ target_month' = EffectiveTargetMonth(analysis_date, target_month)
    /\ pc' = "loop"
    /\ UNCHANGED <<matcher, garages, transactions, analysis_date>>
    /\ UNCHANGED others

\* lines 60-101: the loop body for the next garage
ProcessGarage ==
    /\ pc = "loop"
    /\ Len(selected) < Len(garages)
    /\ LET st == LoopBody(matcher, [payments |-> payments, used |-> used_transactions,
                           selected |-> selected],
                          garages[Len(selected) + 1], transactions,
                          amount_conflicts, analysis_date, target_month)
       IN  /\ payments' = st.payments
           /\ used_transactions' = st.used
           /\ selected' = st.selected
    /\ UNCHANGED <<matcher, garages, transactions, analysis_date, target_month,
                   amount_conflicts, pc>>
    /\ UNCHANGED others

\* line 103: return payments
Return ==
    /\ pc = "loop"
    /\ Len(selected) = Len(garages)
    /\ pc' = "done"
    /\ UNCHANGED <<matcher, garages, transactions, analysis_date, target_month,
                   amount_conflicts, payments, used_transactions, selected>>
    /\ UNCHANGED others

Next == Begin \/ ProcessGarage \/ Return

Spec == Init /\ [][Next]_vars

TypeOK ==
    /\ pc \in {"start", "loop", "done"}
    /\ Len(garages) <= MaxGarages
    /\ Len(transactions) <= MaxTransactions
    /\ \A i \in 1..Len(garages) : GarageValid(garages[i])
    /\ \A i \in 1..Len(transactions) : TransactionValid(transactions[i])

(***************************************************************************)
(* Properties of match_payments                                            *)
(***************************************************************************)
\* the expected date of the i-th garage in this run
ExpectedOf(i) ==
    CalculateExpectedDate(garages[i], EffectiveTargetMonth(analysis_date, target_month))

\* used_transactions as it was when iteration i began
UsedBefore(i) == { selected[k].tx : k \in 1..(i - 1) } \ {0}

NarrowAt(i) ==
    NarrowCandidates(matcher, garages[i].monthly_rent, ExpectedOf(i),
                     transactions, UsedBefore(i), analysis_date)

FallbackAt(i) ==
    FallbackCandidates(garages[i].monthly_rent, transactions, UsedBefore(i),
                       analysis_date)

Range(seq) == { seq[k] : k \in 1..Len(seq) }

NoteHas(notes, key) == \E k \in 1..Len(notes) : notes[k].key = key

Received == { i \in 1..Len(payments) : payments[i].status = "RECEIVED" }

\* C1: match_payments returns exactly one outcome per obligation, in input
\* order, carrying the obligation's identifier and amount, for every input
\* (empty lists included); every date and Payment it constructs passes the
\* constructor's validation, so it never fails, with or without transactions.
C1_OneOutcomePerObligation ==
    /\ Len(payments) = Len(selected)
    /\ Len(payments) <= Len(garages)
    /\ \A i \in 1..Len(payments) :
          /\ payments[i].garage_id = garages[i].id
          /\ payments[i].amount = garages[i].monthly_rent
    /\ (pc = "done") => (Len(payments) = Len(garages))
    /\ \A i \in 1..Len(payments) :
          /\ PaymentValid(payments[i])
          /\ DateValid(payments[i].expected_date)

\* a finished run over two obligations with no transaction at all
C1_Witness ==
    /\ pc = "done"
    /\ Len(garages) >= 2
    /\ Len(transactions) = 0
    /\ Len(payments) = Len(garages)

\* C2: no transaction is selected for more than one outcome: the number of
\* RECEIVED outcomes is the size of the consumed set, the selected
\* transactions are pairwise distinct and are exactly the consumed ones, and
\* no consumed transaction is a candidate of the next obligation in either
\* search.
C2_NoTransactionReuse ==
    /\ Cardinality(Received) = Cardinality(used_transactions)
    /\ used_transactions = UsedBefore(Len(selected) + 1)
    /\ \A i, j \in 1..Len(selected) :
          (i # j /\ selected[i].tx # 0) => selected[i].tx # selected[j].tx
    /\ (pc = "loop" /\ Len(selected) < Len(garages)) =>
          LET n == Len(selected) + 1
          IN  /\ Range(NarrowAt(n)) \cap used_transactions = {}
              /\ Range(FallbackAt(n)) \cap used_transactions = {}

\* two transactions equal in date, amount and category, each the match of a
\* different obligation
C2_Witness ==
    \E i, j \in 1..Len(selected) :
        /\ i # j
        /\ selected[i].tx # 0 /\ selected[j].tx # 0
        /\ selected[i].tx # selected[j].tx
        /\ transactions[selected[i].tx] = transactions[selected[j].tx]

AmountMatching(i) ==
    { t \in 1..Len(transactions) :
        MatchesAmount(transactions[t], garages[i].monthly_rent) }

Distance(t, i) == Abs(Ord(transactions[t].date) - Ord(ExpectedOf(i)))

C6_FallbackEarliestFirst ==
    \A i \in 1..Len(selected) :
        (Len(NarrowAt(i)) = 0 /\ Len(FallbackAt(i)) >= 2) =>
            /\ selected[i].via = "fallback"
            /\ selected[i].tx \in Range(FallbackAt(i))
            /\ \A t \in Range(FallbackAt(i)) :
                  \/ Ord(transactions[selected[i].tx].date) < Ord(transactions[t].date)
                  \/ /\ transactions[selected[i].tx].date = transactions[t].date
                     /\ selected[i].tx <= t
            /\ \E k \in 1..Len(payments[i].notes) :
                  /\ payments[i].notes[k].key = "notes.wide_search_earliest"
                  /\ payments[i].notes[k].text = "Wide search - earliest of {count} matches"
                  /\ payments[i].notes[k].count = Len(FallbackAt(i))

\* three fallback candidates, the earliest neither first in the list nor the
\* closest to the expected date
C6_Witness ==
    \E i \in 1..Len(selected) : \E t \in Range(FallbackAt(i)) :
        /\ Len(NarrowAt(i)) = 0
        /\ Len(FallbackAt(i)) = 3
        /\ selected[i].tx # FallbackAt(i)[1]
        /\ Distance(t, i) < Distance(selected[i].tx, i)

\* the amount-matching transactions of garage i dated up to the analysis date
Eligible(i) ==
    { t \in AmountMatching(i) : Ord(transactions[t].date) <= Ord(analysis_date) }

\* the garages whose rent transaction t matches
Competitors(t) ==
    { k \in 1..Len(garages) : MatchesAmount(transactions[t], garages[k].monthly_rent) }

Reverse(seq) == [k \in 1..Len(seq) |-> seq[Len(seq) + 1 - k]]

\* the run over the same inputs with the garage list reversed
ReversedRun ==
    MatchPayments(matcher, Reverse(garages), transactions, analysis_date, target_month)

NoMatchOutcome(i) ==
    LET r == DetermineStatus(matcher.grace_period_days, ExpectedOf(i),
                             analysis_date, FALSE, NoDate, FALSE)
    IN  Payment(garages[i].id, garages[i].monthly_rent, ExpectedOf(i), NoDate,
                r.status, r.days,
                << I18nGet("notes.no_payment", "No matching payment found", <<>>, 0) >>)

\* A and B are the two obligations of one amount, t the single transaction of
\* that amount, dated closer to A's expected date than to B's
CloserScenario(a, b, t) ==
    /\ a # b
    /\ garages[a].monthly_rent = garages[b].monthly_rent
    /\ AmountMatching(a) = {t}
    /\ Competitors(t) = {a, b}
    /\ Distance(t, a) < Distance(t, b)

HasAmountConflict(i) ==
    \E j \in 1..Len(garages) :
        j # i /\ garages[j].monthly_rent = garages[i].monthly_rent

\* the notes list the identifiers of the garages of garage i's amount
HasConflictNote(i) ==
    \E k \in 1..Len(payments[i].notes) :
        payments[i].notes[k].garages = IdsWithRent(garages, garages[i].monthly_rent)

\* C9 as claimed: every obligation whose amount equals that of another
\* obligation gets an outcome whose notes list the conflicting identifiers,
\* matched by the narrow search, by the fallback search, or not matched.
C9_ConflictNoteOnEveryOutcome ==
    \A i \in 1..Len(payments) : HasAmountConflict(i) => HasConflictNote(i)

\* C10: when neither search selects a transaction the outcome has no
\* actual_date, the notes 'No matching payment found', and the status and
\* days_overdue of determine_status(expected_date, analysis_date,
\* has_payment=False) under the matcher's own grace_period_days.
C10_UnmatchedDelegatesToClassifier ==
    \A i \in 1..Len(selected) :
        (selected[i].tx = 0) =>
            LET r == DetermineStatus(matcher.grace_period_days, ExpectedOf(i),
                                     analysis_date, FALSE, NoDate, FALSE)
            IN  /\ selected[i].via = "none"
                /\ payments[i].actual_date = NoDate
                /\ Len(payments[i].notes) = 1
                /\ payments[i].notes[1].text = "No matching payment found"
                /\ payments[i].notes[1].garages = <<>>
                /\ payments[i].status = r.status
                /\ payments[i].days_overdue = r.days
                /\ payments[i].status \in {"NOT_DUE", "PENDING", "OVERDUE"}

\* an unmatched obligation of a matcher whose grace period is not the
\* classifier's default, still PENDING on a day the default would call overdue
C10_Witness ==
    \E i \in 1..Len(selected) :
        /\ selected[i].tx = 0
        /\ matcher.grace_period_days # GracePeriodDays
        /\ payments[i].status = "PENDING"
        /\ payments[i].days_overdue > GracePeriodDays


(***************************************************************************)
(* StatusDeterminer.determine_status called on its own                     *)
(* (src/core/services/status_determiner.py).                               *)
(***************************************************************************)

\* largest grace period tried, and how far (in days) the analysis date and
\* the payment date lie from the expected date at most
MaxGrace == 4
MaxDayOffset == 10

\* the dates of the given years and months
DatesOf(years, months) ==
    { D(y, m, d) : <<y, m, d>> \in
        { ymd \in years \X months \X (1..31) : ymd[3] <= DaysInMonth(ymd[1], ymd[2]) } }

StatusExpectedDates == { D(2025, 1, 15), D(2025, 1, 31) }

\* the dates at most MaxDayOffset days away from e
Near(e) ==
    { d \in DatesOf({2025}, 1..3) :
        Abs(Ord(d) - Ord(e)) <= MaxDayOffset }

NoResult == [status |-> "NONE", days |-> 0]

\* DateCalculator.calculate_days_overdue, lines 104-119
CalculateDaysOverdue(expected_date, current_date, grace_period_days) ==
    LET grace_end == Ord(expected_date) + grace_period_days
    IN  IF Ord(current_date) > grace_end
        THEN Ord(current_date) - grace_end
        ELSE 0

InitStatus ==
    /\ \E e \in StatusExpectedDates, g \in 0..MaxGrace,
          hp \in BOOLEAN, hm \in BOOLEAN :
          \E ad \in Near(e), ap \in Near(e) \cup {NoDate} :
             status_call = [grace_period_days |-> g,
                            expected_date |-> e,
                            analysis_date |-> ad,
                            has_payment |-> hp,
                            actual_payment_date |-> ap,
                            has_multiple_payments |-> hm,
                            result |-> NoResult]
    /\ matcher = Idle /\ garages = <<>> /\ transactions = <<>>
    /\ analysis_date = NoDate /\ target_month = NoDate
    /\ amount_conflicts = <<>> /\ payments = <<>>
    /\ used_transactions = {} /\ selected = <<>>
    /\ date_call = Idle /\ report_call = Idle /\ use_case = Idle
    /\ pc = "start"
    /\ garage_call = Idle /\ runs = <<>>

\* determine_status, lines 27-90: one call with the drawn arguments
DetermineStatusCall ==
    /\ pc = "start"
    /\ status_call' =
         [status_call EXCEPT !.result =
            DetermineStatus(status_call.grace_period_days,
                            status_call.expected_date,
                            status_call.analysis_date,
                            status_call.has_payment,
                            status_call.actual_payment_date,
                            status_call.has_multiple_payments)]
    /\ pc' = "done"
    /\ UNCHANGED <<matcher, garages, transactions, analysis_date, target_month,
                   amount_conflicts, payments, used_transactions, selected,
                   date_call, report_call, use_case>>
    /\ UNCHANGED <<garage_call, runs>>

NextStatus == DetermineStatusCall

SpecStatus == InitStatus /\ [][NextStatus]_vars

\* analysis date minus expected date of the call, in days
StatusOffset == Ord(status_call.analysis_date) - Ord(status_call.expected_date)

\* the call has returned and no payment evidence was passed
NoEvidenceDone ==
    /\ pc = "done"
    /\ ~status_call.has_payment
    /\ ~status_call.has_multiple_payments

C13_OverdueOffsetPastGrace ==
    (pc = "done" /\ status_call.result.status = "OVERDUE") =>
        /\ status_call.result.days = StatusOffset - status_call.grace_period_days
        /\ status_call.result.days =
              CalculateDaysOverdue(status_call.expected_date,
                                   status_call.analysis_date,
                                   status_call.grace_period_days)

\* the call has returned; one payment with a date was passed
DatedPaymentDone ==
    /\ pc = "done"
    /\ status_call.has_payment
    /\ ~status_call.has_multiple_payments
    /\ status_call.actual_payment_date # NoDate

\* actual payment date minus expected date of the call, in days
PaymentOffset ==
    Ord(status_call.actual_payment_date) - Ord(status_call.expected_date)

C15_UndatedPaymentAndPrecedence ==
    (pc = "done") =>
        /\ status_call.has_multiple_payments =>
              status_call.result = [status |-> "UNCLEAR", days |-> 0]
        /\ ( /\ ~status_call.has_multiple_payments
             /\ status_call.has_payment
             /\ status_call.actual_payment_date = NoDate ) =>
              status_call.result = [status |-> "RECEIVED", days |-> 0]

\* an undated payment was RECEIVED with offset 0 on an analysis date well
\* after the grace period
C15_Witness ==
    /\ pc = "done"
    /\ status_call.has_payment
    /\ ~status_call.has_multiple_payments
    /\ status_call.actual_payment_date = NoDate
    /\ StatusOffset > status_call.grace_period_days + 1
    /\ status_call.result = [status |-> "RECEIVED", days |-> 0]

(***************************************************************************)
(* DateCalculator called on its own                                        *)
(* (src/core/services/date_calculator.py).                                 *)
(***************************************************************************)

\* a leap year and a common year
DateYears == { 2024, 2025 }

\* the payment days Garage.__post_init__ accepts
PaymentDays == 1..31

\* the garage of a call: only its payment day matters to DateCalculator
DateGarage(payment_day) ==
    [id |-> "1", monthly_rent |-> 350000, payment_day |-> payment_day]

InitDate ==
    /\ \E pd \in PaymentDays, d \in DatesOf(DateYears, 1..12) :
          date_call = [op |-> "none", garage |-> DateGarage(pd),
                       date |-> d, result |-> NoDate]
    /\ matcher = Idle /\ garages = <<>> /\ transactions = <<>>
    /\ analysis_date = NoDate /\ target_month = NoDate
    /\ amount_conflicts = <<>> /\ payments = <<>>
    /\ used_transactions = {} /\ selected = <<>>
    /\ status_call = Idle /\ report_call = Idle /\ use_case = Idle
    /\ pc = "start"
    /\ garage_call = Idle /\ runs = <<>>

\* calculate_expected_date(garage, target_month), lines 21-47
CalculateExpectedDateCall ==
    /\ pc = "start"
    /\ date_call' = [date_call EXCEPT
                       !.op = "calculate_expected_date",
                       !.result = CalculateExpectedDate(date_call.garage,
                                                        date_call.date)]
    /\ pc' = "done"
    /\ UNCHANGED <<matcher, garages, transactions, analysis_date, target_month,
                   amount_conflicts, payments, used_transactions, selected,
                   status_call, report_call, use_case>>
    /\ UNCHANGED <<garage_call, runs>>

\* get_next_payment_date(garage, from_date), lines 49-75
GetNextPaymentDateCall ==
    /\ pc = "start"
    /\ date_call' = [date_call EXCEPT
                       !.op = "get_next_payment_date",
                       !.result = GetNextPaymentDate(date_call.garage,
                                                     date_call.date)]
    /\ pc' = "done"
    /\ UNCHANGED <<matcher, garages, transactions, analysis_date, target_month,
                   amount_conflicts, payments, used_transactions, selected,
                   status_call, report_call, use_case>>
    /\ UNCHANGED <<garage_call, runs>>

NextDate == CalculateExpectedDateCall \/ GetNextPaymentDateCall

SpecDate == InitDate /\ [][NextDate]_vars

\* the first day of the month after the month of d
FollowingMonth(d) ==
    IF d.month = 12 THEN D(d.year + 1, 1, 1) ELSE D(d.year, d.month + 1, 1)

\* the number of days of the month of d, counted on the calendar
MonthLength(d) == Ord(FollowingMonth(d)) - Ord(D(d.year, d.month, 1))

Min(a, b) == IF a <= b THEN a ELSE b

\* the date of the month of d whose day is min(payment_day, month length)
Clamped(payment_day, d) == D(d.year, d.month, Min(payment_day, MonthLength(d)))

ExpectedDateDone == pc = "done" /\ date_call.op = "calculate_expected_date"

\* C16: calculate_expected_date returns the date of the target month whose
\* day is min(recurrence day, days of that month): 31 gives 30 in a 30-day
\* month, 29 gives 28 in February of a common year and 29 in a leap year;
\* the date exists, and the day of target_month plays no part.
C16_ExpectedDateClamped ==
    ExpectedDateDone =>
        LET r == date_call.result
            tm == date_call.date
            pd == date_call.garage.payment_day
        IN  /\ r = Clamped(pd, tm)
            /\ DateValid(r)
            /\ (pd = 31 /\ tm.month \in {4, 6, 9, 11}) => r.day = 30
            /\ (pd = 29 /\ tm.month = 2 /\ tm.year = 2025) => r.day = 28
            /\ (pd = 29 /\ tm.month = 2 /\ tm.year = 2024) => r.day = 29
            /\ \A day \in 1..MonthLength(tm) :
                  CalculateExpectedDate(date_call.garage,
                                        D(tm.year, tm.month, day)) = r

\* day 31 asked of a 30-day month, from a target date that is not the first
C16_Witness ==
    /\ ExpectedDateDone
    /\ date_call.garage.payment_day = 31
    /\ date_call.date = D(2025, 4, 17)
    /\ date_call.result = D(2025, 4, 30)

NextPaymentDone == pc = "done" /\ date_call.op = "get_next_payment_date"

\* C17: get_next_payment_date returns the clamped expected date of the month
\* of from_date when it is not before from_date, otherwise the clamped
\* expected date of the following month (December -> January of the next
\* year); the result is never before from_date.
C17_NextPaymentDate ==
    NextPaymentDone =>
        LET r == date_call.result
            from == date_call.date
            pd == date_call.garage.payment_day
            this == Clamped(pd, from)
        IN  /\ Ord(this) >= Ord(from) => r = this
            /\ Ord(this) < Ord(from) => r = Clamped(pd, FollowingMonth(from))
            /\ Ord(r) >= Ord(from)
            /\ DateValid(r)

\* from 2024-12-20 with payment day 15 the next date is 2025-01-15
C17_Witness ==
    /\ NextPaymentDone
    /\ date_call.garage.payment_day = 15
    /\ date_call.date = D(2024, 12, 20)
    /\ date_call.result = D(2025, 1, 15)

(***************************************************************************)
(* PaymentSummary and PaymentReport (src/core/models/report.py).           *)
(* generated_at (datetime.now()) is left out of the report record.         *)
(***************************************************************************)

\* sum(p.amount for p in payments), in cents
RECURSIVE SumAmounts(_)
SumAmounts(ps) == IF Len(ps) = 0 THEN 0 ELSE Head(ps).amount + SumAmounts(Tail(ps))

\* sum(1 for p in payments if p.status == status)
CountStatus(ps, status) == Len(SelectSeq(ps, LAMBDA p : p.status = status))

PaymentSummary(total_garages, received_count, overdue_count, pending_count, not_due_count, unclear_count, total_expected, total_received) ==
    [total_garages |-> total_garages, received_count |-> received_count,
     overdue_count |-> overdue_count, pending_count |-> pending_count,
     not_due_count |-> not_due_count, unclear_count |-> unclear_count,
     total_expected |-> total_expected, total_received |-> total_received]

\* variant: the total received adds up every amount
CalculateSummary_ReceivedAll(ps) ==
    PaymentSummary(Len(ps),
                   CountStatus(ps, "RECEIVED"), CountStatus(ps, "OVERDUE"),
                   CountStatus(ps, "PENDING"), CountStatus(ps, "NOT_DUE"),
                   CountStatus(ps, "UNCLEAR"),
                   SumAmounts(ps),
                   SumAmounts(ps))

\* PaymentReport._calculate_summary, lines 80-104
CalculateSummary(ps) ==
    PaymentSummary(Len(ps),
                   CountStatus(ps, "RECEIVED"), CountStatus(ps, "OVERDUE"),
                   CountStatus(ps, "PENDING"), CountStatus(ps, "NOT_DUE"),
                   CountStatus(ps, "UNCLEAR"),
                   SumAmounts(ps),
                   SumAmounts(SelectSeq(ps, LAMBDA p : p.status = "RECEIVED")))

\* PaymentSummary.collection_rate, lines 23-28, as the exact fraction
\* num / den (the float rounding of the division is not modelled)
CollectionRate(summary) ==
    IF summary.total_garages = 0
    THEN [num |-> 0, den |-> 1]
    ELSE [num |-> summary.received_count * 100, den |-> summary.total_garages]

\* variant: an empty payment list is accepted
PostInitError_AllowsEmpty(report) ==
    IF report.garage_file = "" \/ report.statement_file = ""
    THEN "Source files must be specified"
    ELSE ""

\* PaymentReport.__post_init__, lines 44-50: the message of the ValueError
\* raised, "" when none is raised
PostInitError(report) ==
    IF Len(report.payments) = 0
    THEN "Report must contain at least one payment"
    ELSE IF report.garage_file = "" \/ report.statement_file = ""
    THEN "Source files must be specified"
    ELSE ""

\* PaymentReport.create, lines 52-78: raised is the message of the exception
\* that left the call ("" for a normal return), report holds the report
\* object when one was constructed
CreateReport(garage_file, statement_file, ps, ad, notes) ==
    LET summary == CalculateSummary(ps)
        report == [analysis_date |-> ad, garage_file |-> garage_file,
                   statement_file |-> statement_file, payments |-> ps,
                   summary |-> summary, notes |-> notes]
        error == PostInitError(report)
    IN  IF error # ""
        THEN [raised |-> error, report |-> <<>>]
        ELSE [raised |-> "", report |-> <<report>>]

\* longest outcome list handed to PaymentReport.create
MaxPayments == 3

PaymentStatuses == { "RECEIVED", "OVERDUE", "PENDING", "NOT_DUE", "UNCLEAR" }

ReportAmounts == { 350000, 420050 }

ReportDate == D(2025, 1, 20)

\* lists of valid Payment objects, numbered like the garages
ReportPaymentLists ==
    { [i \in 1..Len(vs) |->
          Payment(ToString(i), vs[i][2], D(2025, 1, 15), NoDate, vs[i][1], 0, <<>>)] :
      vs \in SeqsUpTo(PaymentStatuses \X ReportAmounts, MaxPayments) }

NotCalled == [raised |-> "not called", report |-> <<>>]

InitReport ==
    /\ \E ps \in ReportPaymentLists,
          gf \in {"", "garages.xlsx"}, sf \in {"", "statement.xlsx"} :
          report_call = [garage_file |-> gf, statement_file |-> sf,
                         payments |-> ps, result |-> NotCalled]
    /\ matcher = Idle /\ garages = <<>> /\ transactions = <<>>
    /\ analysis_date = ReportDate /\ target_month = NoDate
    /\ amount_conflicts = <<>> /\ payments = <<>>
    /\ used_transactions = {} /\ selected = <<>>
    /\ status_call = Idle /\ date_call = Idle /\ use_case = Idle
    /\ pc = "start"
    /\ garage_call = Idle /\ runs = <<>>

\* PaymentReport.create(garage_file, statement_file, payments, analysis_date)
CreateReportCall ==
    /\ pc = "start"
    /\ report_call' = [report_call EXCEPT !.result =
                         CreateReport(report_call.garage_file,
                                      report_call.statement_file,
                                      report_call.payments,
                                      analysis_date, <<>>)]
    /\ pc' = "done"
    /\ UNCHANGED <<matcher, garages, transactions, analysis_date, target_month,
                   amount_conflicts, payments, used_transactions, selected,
                   status_call, date_call, use_case>>
    /\ UNCHANGED <<garage_call, runs>>

NextReport == CreateReportCall

SpecReport == InitReport /\ [][NextReport]_vars

\* the sum of the amounts of the payments at the given positions
RECURSIVE AmountOver(_, _)
AmountOver(ps, I) ==
    IF I = {} THEN 0
    ELSE LET i == CHOOSE k \in I : TRUE
         IN  ps[i].amount + AmountOver(ps, I \ {i})

\* create has returned a report
ReportCreated ==
    /\ pc = "done"
    /\ report_call.result.raised = ""
    /\ Len(report_call.result.report) = 1

\* C18: in a report the five per-status counts add up to total_garages, the
\* number of outcomes; total_received is the sum of the amounts of the
\* RECEIVED outcomes and at most total_expected; collection_rate is
\* received_count / total_garages * 100, and 0 when nothing was received.
C18_SummaryInvariants ==
    ReportCreated =>
        LET report == report_call.result.report[1]
            sm == report.summary
            ps == report_call.payments
            rate == CollectionRate(sm)
            rcv == { i \in 1..Len(ps) : ps[i].status = "RECEIVED" }
        IN  /\ Len(ps) > 0
            /\ report.payments = ps
            /\ sm.total_garages = Len(ps)
            /\ sm.received_count + sm.overdue_count + sm.pending_count
                 + sm.not_due_count + sm.unclear_count = sm.total_garages
            /\ sm.received_count = Cardinality(rcv)
            /\ sm.total_received = AmountOver(ps, rcv)
            /\ sm.total_expected = AmountOver(ps, 1..Len(ps))
            /\ sm.total_received <= sm.total_expected
            /\ rate.den > 0
            /\ rate.num * sm.total_garages = sm.received_count * 100 * rate.den
            /\ sm.received_count = 0 => rate.num = 0

\* a report of three outcomes of which one is RECEIVED and one UNCLEAR
C18_Witness ==
    /\ ReportCreated
    /\ report_call.result.report[1].summary.total_garages = 3
    /\ report_call.result.report[1].summary.received_count = 1
    /\ report_call.result.report[1].summary.unclear_count = 1
    /\ report_call.result.report[1].summary.total_received = 420050
    /\ report_call.result.report[1].summary.total_expected = 1120050

PaymentProcessResponse(success, report, errors, warnings) ==
    [success |-> success, report |-> report, errors |-> errors,
     warnings |-> warnings]

\* a warning of _validate_data_integrity: the f-string and its arguments
Warning(kind, amount, garageIds) ==
    [kind |-> kind, amount |-> amount, garages |-> garageIds]

\* _validate_data_integrity, lines 159-194: one warning per amount shared by
\* several garages, in the order the amounts first appear, then one warning
\* naming the garages with a payment day after the 28th
ValidateDataIntegrity(gs) ==
    LET firsts == SelectSeq(Indices(gs),
                     LAMBDA i : /\ \A j \in 1..(i - 1) :
                                      gs[j].monthly_rent # gs[i].monthly_rent
                                /\ Len(IdsWithRent(gs, gs[i].monthly_rent)) > 1)
        duplicates == [k \in 1..Len(firsts) |->
                          Warning("Duplicate rental amount",
                                  gs[firsts[k]].monthly_rent,
                                  IdsWithRent(gs, gs[firsts[k]].monthly_rent))]
        unusual == SelectSeq(Indices(gs), LAMBDA i : gs[i].payment_day > 28)
    IN  IF Len(unusual) > 0
        THEN Append(duplicates,
                    Warning("Garages with payment days > 28", 0,
                            [k \in 1..Len(unusual) |-> gs[unusual[k]].id]))
        ELSE duplicates

\* str(e) of the ParseError raised by _parse_garage_registry and by
\* _parse_bank_statement (the parser's own message is left out)
GarageParseError == "Error parsing test_garage.xlsx: Failed to parse garage registry"

StatementParseError == "Error parsing test_statement.xlsx: Failed to parse bank statement"

\* the requests: analysis date, the target month of the payment period found
\* in the statement (NoDate when none is found)
RequestValues ==
    { <<D(2025, 1, 20), NoDate>>, <<D(2025, 2, 3), NoDate>>,
      <<D(2025, 2, 3), D(2025, 1, 1)>> }

\* what the two parsers do: return their list or raise
ParseOutcomes == { <<"ok", "ok">>, <<"raise", "ok">>, <<"ok", "raise">> }

NoResponse == PaymentProcessResponse(FALSE, <<>>, <<"not called">>, <<>>)

InitUseCase ==
    /\ garages \in GarageLists
    /\ transactions \in TransactionLists
    /\ matcher = DefaultMatcher
    /\ \E rq \in RequestValues, po \in ParseOutcomes :
          /\ analysis_date = rq[1]
          /\ use_case = [garage_file |-> "test_garage.xlsx",
                         statement_file |-> "test_statement.xlsx",
                         period_target_month |-> rq[2],
                         parse_garages |-> po[1],
                         parse_transactions |-> po[2],
                         response |-> NoResponse]
    /\ target_month = NoDate
    /\ amount_conflicts = <<>> /\ payments = <<>>
    /\ used_transactions = {} /\ selected = <<>>
    /\ status_call = Idle /\ date_call = Idle /\ report_call = Idle
    /\ pc = "start"
    /\ garage_call = Idle /\ runs = <<>>

\* execute where a parser raises, lines 63-70 and 118-125
ExecuteParseFails ==
    /\ pc = "start"
    /\ use_case.parse_garages = "raise" \/ use_case.parse_transactions = "raise"
    /\ use_case' = [use_case EXCEPT !.response =
          PaymentProcessResponse(FALSE, <<>>,
              << IF use_case.parse_garages = "raise"
                 THEN GarageParseError ELSE StatementParseError >>,
              <<>>)]
    /\ pc' = "done"
    /\ UNCHANGED <<matcher, garages, transactions, analysis_date, target_month,
                   amount_conflicts, payments, used_transactions, selected,
                   status_call, date_call, report_call>>
    /\ UNCHANGED <<garage_call, runs>>

\* execute where both parsers return, lines 63-125
Execute ==
    /\ pc = "start"
    /\ use_case.parse_garages = "ok" /\ use_case.parse_transactions = "ok"
    /\ LET tm == IF use_case.period_target_month # NoDate
                 THEN use_case.period_target_month
                 ELSE D(analysis_date.year, analysis_date.month, 1)
           validation_notes == ValidateDataIntegrity(garages)
           run == MatchPayments(matcher, garages, transactions, analysis_date, tm)
           created == CreateReport(use_case.garage_file, use_case.statement_file,
                                   run.payments, analysis_date, validation_notes)
       IN  /\ target_month' = tm
           /\ amount_conflicts' = FindAmountConflicts(garages)
           /\ payments' = run.payments
           /\ used_transactions' = run.used
           /\ selected' = run.selected
           /\ use_case' = [use_case EXCEPT !.response =
                 IF created.raised # ""
                 THEN PaymentProcessResponse(FALSE, <<>>, <<created.raised>>, <<>>)
                 ELSE PaymentProcessResponse(TRUE, created.report, <<>>,
                                             validation_notes)]
    /\ pc' = "done"
    /\ UNCHANGED <<matcher, garages, transactions, analysis_date,
                   status_call, date_call, report_call>>
    /\ UNCHANGED <<garage_call, runs>>

NextUseCase == ExecuteParseFails \/ Execute

SpecUseCase == InitUseCase /\ [][NextUseCase]_vars

\* execute has returned for two files that parse to nothing
EmptyFilesDone ==
    /\ pc = "done"
    /\ use_case.parse_garages = "ok" /\ use_case.parse_transactions = "ok"
    /\ garages = <<>> /\ transactions = <<>>

\* C20: execute with no obligation and no transaction returns success = True
\* with a report that has zero payments and summary.total_garages = 0.
C20_EmptyFilesSucceed ==
    EmptyFilesDone =>
        /\ use_case.response.success
        /\ Len(use_case.response.report) = 1
        /\ \A k \in 1..Len(use_case.response.report) :
              /\ Len(use_case.response.report[k].payments) = 0
              /\ use_case.response.report[k].summary.total_garages = 0

(***************************************************************************)
(* The two searches of match_payments, continued                           *)
(***************************************************************************)

\* the notes whose text contains 'Wide search match'
WideSearchMatchTexts ==
    { "Wide search match",
      "Wide search match (amount shared with garages: {garages})" }

\* the notes whose text contains 'Wide search'
WideSearchTexts ==
    WideSearchMatchTexts \cup { "Wide search - earliest of {count} matches" }

NoteHasText(notes, texts) == \E k \in 1..Len(notes) : notes[k].text \in texts

\* the unconsumed transactions of the obligation's amount, whatever their date
UnconsumedMatching(i) == AmountMatching(i) \ UsedBefore(i)

\* the transaction date lies in the narrow window of obligation i
InNarrowWindow(t, i) ==
    /\ Ord(ExpectedOf(i)) - matcher.search_window_days <= Ord(transactions[t].date)
    /\ Ord(transactions[t].date) <= Ord(ExpectedOf(i)) + matcher.grace_period_days

\* C21: when the narrow search finds nothing and exactly one unconsumed
\* transaction has the obligation's amount, whatever its date, the outcome is
\* RECEIVED with that transaction's date and a 'Wide search match' note.
C21_SingleFallbackAnyDate ==
    \A i \in 1..Len(payments) :
        \A t \in UnconsumedMatching(i) :
            (Len(NarrowAt(i)) = 0 /\ UnconsumedMatching(i) = {t}) =>
                /\ payments[i].status = "RECEIVED"
                /\ payments[i].actual_date = transactions[t].date
                /\ NoteHasText(payments[i].notes, WideSearchMatchTexts)

\* C22: a transaction of the right amount dated more than search_window_days
\* before the expected date is not matched to the obligation: no selected
\* transaction lies before the narrow window, and the obligation of January
\* 15 with the single transaction of January 5 is OVERDUE on January 20.
C22_NoMatchBeforeWindow ==
    /\ \A i \in 1..Len(selected) :
          (selected[i].tx # 0) =>
              Ord(transactions[selected[i].tx].date)
                 >= Ord(ExpectedOf(i)) - matcher.search_window_days
    /\ \A i \in 1..Len(payments) :
          ( /\ ExpectedOf(i) = D(2025, 1, 15)
            /\ analysis_date = D(2025, 1, 20)
            /\ Len(transactions) = 1
            /\ transactions[1].date = D(2025, 1, 5)
            /\ 1 \in AmountMatching(i) ) =>
              /\ payments[i].status = "OVERDUE"
              /\ payments[i].actual_date = NoDate

\* C23: the wide search runs only when the narrow search has no candidate:
\* with a narrow candidate the selected transaction lies in the narrow window
\* and no note says 'Wide search'; a note says 'Wide search' exactly when the
\* match came from the wide search.
C23_FallbackOnlyAfterNarrow ==
    \A i \in 1..Len(payments) :
        /\ (Len(NarrowAt(i)) > 0) =>
              /\ selected[i].via = "narrow"
              /\ selected[i].tx \in Range(NarrowAt(i))
              /\ InNarrowWindow(selected[i].tx, i)
              /\ Ord(transactions[selected[i].tx].date) <= Ord(analysis_date)
              /\ ~NoteHasText(payments[i].notes, WideSearchTexts)
        /\ (selected[i].via = "fallback") => (Len(NarrowAt(i)) = 0)
        /\ NoteHasText(payments[i].notes, WideSearchTexts)
              <=> (selected[i].via = "fallback")

\* an obligation matched in its narrow window while another unconsumed
\* transaction of its amount lay outside the window, on or before the
\* analysis date
C23_Witness ==
    \E i \in 1..Len(payments) :
        /\ selected[i].via = "narrow"
        /\ \E t \in Range(FallbackAt(i)) : ~InNarrowWindow(t, i)
        /\ ~NoteHasText(payments[i].notes, WideSearchTexts)

(***************************************************************************)
(* The constructor of Garage (src/core/models/garage.py).  start_date is   *)
(* not validated and is left out.                                          *)
(***************************************************************************)

\* variant: the last day accepted is the 30th
GaragePostInitError_ExclusiveDay(g) ==
    IF g.id = "" THEN "Garage ID cannot be empty"
    ELSE IF g.monthly_rent <= 0 THEN "Monthly rent must be positive"
    ELSE IF ~(1 <= g.payment_day /\ g.payment_day < 31)
    THEN "Payment day must be between 1 and 31"
    ELSE ""

\* Garage.__post_init__, lines 21-30: the message of the ValueError raised,
\* "" when none is raised
GaragePostInitError(g) ==
    IF g.id = "" THEN "Garage ID cannot be empty"
    ELSE IF g.monthly_rent <= 0 THEN "Monthly rent must be positive"
    ELSE IF ~(1 <= g.payment_day /\ g.payment_day <= 31)
    THEN "Payment day must be between 1 and 31"
    ELSE ""

\* Garage(id, monthly_rent, start_date, payment_day): raised is the message
\* of the exception that left the constructor, garage holds the object when
\* one was created
NewGarage(id, monthly_rent, payment_day) ==
    LET g == [id |-> id, monthly_rent |-> monthly_rent, payment_day |-> payment_day]
        error == GaragePostInitError(g)
    IN  IF error # ""
        THEN [raised |-> error, garage |-> <<>>]
        ELSE [raised |-> "", garage |-> <<g>>]

\* the arguments tried: identifiers, rents in cents, payment days
GarageIdInputs == { "", "1", "garage_1" }

GarageRentInputs == { -10000, 0, 1, 350000 }

GarageDayInputs == -1..33

NotConstructed == [raised |-> "not called", garage |-> <<>>]

InitGarage ==
    /\ \E id \in GarageIdInputs, rent \in GarageRentInputs, day \in GarageDayInputs :
          garage_call = [id |-> id, monthly_rent |-> rent, payment_day |-> day,
                         result |-> NotConstructed]
    /\ matcher = Idle /\ garages = <<>> /\ transactions = <<>>
    /\ analysis_date = NoDate /\ target_month = NoDate
    /\ amount_conflicts = <<>> /\ payments = <<>>
    /\ used_transactions = {} /\ selected = <<>>
    /\ status_call = Idle /\ date_call = Idle
    /\ report_call = Idle /\ use_case = Idle
    /\ runs = <<>>
    /\ pc = "start"

\* Garage(...) called with the drawn arguments
NewGarageCall ==
    /\ pc = "start"
    /\ garage_call' = [garage_call EXCEPT !.result =
                         NewGarage(garage_call.id, garage_call.monthly_rent,
                                   garage_call.payment_day)]
    /\ pc' = "done"
    /\ UNCHANGED <<matcher, garages, transactions, analysis_date, target_month,
                   amount_conflicts, payments, used_transactions, selected,
                   status_call, date_call, report_call, use_case, runs>>

NextGarage == NewGarageCall

SpecGarage == InitGarage /\ [][NextGarage]_vars

\* C24: constructing an obligation raises, and creates no object, exactly
\* when the identifier is empty, the amount is <= 0 or the recurrence day is
\* outside 1..31; days 1 and 31 are accepted.
C24_InvalidObligationRejected ==
    (pc = "done") =>
        LET r == garage_call.result
            invalid == \/ garage_call.id = ""
                       \/ garage_call.monthly_rent <= 0
                       \/ garage_call.payment_day < 1
                       \/ garage_call.payment_day > 31
        IN  /\ invalid <=> (r.raised # "")
            /\ invalid <=> (r.garage = <<>>)
            /\ ~invalid =>
                  /\ Len(r.garage) = 1
                  /\ r.garage[1].id = garage_call.id
                  /\ r.garage[1].monthly_rent = garage_call.monthly_rent
                  /\ r.garage[1].payment_day = garage_call.payment_day
                  /\ GarageValid(r.garage[1])

\* an obligation with recurrence day 31 and the smallest positive amount was
\* created
C24_Witness ==
    /\ pc = "done"
    /\ garage_call.payment_day = 31
    /\ garage_call.monthly_rent = 1
    /\ garage_call.result.raised = ""
    /\ Len(garage_call.result.garage) = 1

(***************************************************************************)
(* match_payments called twice on the same matcher with the same           *)
(* arguments.  runs holds the lists returned so far; used_transactions,    *)
(* payments and selected are the locals of the latest call as it returned. *)
(***************************************************************************)

\* how often match_payments is called
RunsPerMatcher == 2

InitRuns ==
    /\ garages \in GarageLists
    /\ transactions \in TransactionLists
    /\ \E rv \in RunValues :
          analysis_date = rv[1] /\ target_month = rv[2] /\ matcher = rv[3]
    /\ amount_conflicts = <<>>
    /\ payments = <<>>
    /\ used_transactions = {}
    /\ selected = <<>>
    /\ runs = <<>>
    /\ status_call = Idle /\ date_call = Idle
    /\ report_call = Idle /\ use_case = Idle /\ garage_call = Idle
    /\ pc = "start"

\* one whole call match_payments(garages, transactions, analysis_date,
\* target_month), lines 35-103
MatchPaymentsCall ==
    /\ pc = "start"
    /\ Len(runs) < RunsPerMatcher
    /\ LET run == MatchPayments(matcher, garages, transactions, analysis_date,
                                target_month)
       IN  /\ payments' = run.payments
           /\ used_transactions' = run.used
           /\ selected' = run.selected
           /\ runs' = Append(runs, run.payments)
    /\ amount_conflicts' = FindAmountConflicts(garages)
    /\ pc' = IF Len(runs) + 1 = RunsPerMatcher THEN "done" ELSE "start"
    /\ UNCHANGED <<matcher, garages, transactions, analysis_date, target_month,
                   status_call, date_call, report_call, use_case, garage_call>>

NextRuns == MatchPaymentsCall

SpecRuns == InitRuns /\ [][NextRuns]_vars

\* the transactions a call starting from an empty consumed set selects
FreshlyConsumed ==
    { selected[k].tx : k \in 1..Len(selected) } \ {0}

C26_NeverUnclear ==
    \A i \in 1..Len(payments) :
        /\ payments[i].status \in {"RECEIVED", "NOT_DUE", "PENDING", "OVERDUE"}
        /\ payments[i].status # "UNCLEAR"
        /\ (payments[i].status = "RECEIVED") <=> (payments[i].actual_date # NoDate)
        /\ (Len(NarrowAt(i)) > 1 \/ Len(FallbackAt(i)) > 1) =>
              payments[i].status = "RECEIVED"

\* an outcome chosen among several narrow candidates is RECEIVED and says so
\* in its notes
C26_Witness ==
    \E i \in 1..Len(payments) :
        /\ Len(NarrowAt(i)) > 1
        /\ payments[i].status = "RECEIVED"
        /\ payments[i].actual_date # NoDate
        /\ NoteHas(payments[i].notes, "notes.multiple_matches")

\* the obligations left without a transaction
Unmatched == { i \in 1..Len(selected) : selected[i].tx = 0 }

\* the transactions no obligation consumed
Unconsumed == (1..Len(transactions)) \ used_transactions

ToleranceGarageValues == { <<15, 350000>>, <<15, 350001>>, <<15, 350002>> }

\* (date, amount in cents)
ToleranceTxValues == { <<D(2025, 1, 14), 350001>>, <<D(2025, 1, 16), 350000>> }

InitTolerance ==
    /\ garages \in
          { [i \in 1..Len(vs) |-> [id |-> ToString(i), monthly_rent |-> vs[i][2],
                                   payment_day |-> vs[i][1]]] :
            vs \in SeqsUpTo(ToleranceGarageValues, MaxGarages) }
    /\ transactions \in
          { [i \in 1..Len(vs) |-> [date |-> vs[i][1], amount |-> vs[i][2],
                                   category |-> TxCategory]] :
            vs \in SeqsUpTo(ToleranceTxValues, MaxTransactions) }
    /\ analysis_date \in { D(2025, 1, 15), D(2025, 1, 20) }
    /\ target_month = NoDate
    /\ matcher = DefaultMatcher
    /\ amount_conflicts = <<>>
    /\ payments = <<>>
    /\ used_transactions = {}
    /\ selected = <<>>
    /\ status_call = Idle /\ date_call = Idle
    /\ report_call = Idle /\ use_case = Idle
    /\ garage_call = Idle /\ runs = <<>>
    /\ pc = "start"

SpecTolerance == InitTolerance /\ [][Next]_vars

\* transaction t is unconsumed when obligation i is processed, dated up to
\* the analysis date, and at most 0.01 away from the amount of i
WithinCent(t, i) ==
    /\ t \notin UsedBefore(i)
    /\ Ord(transactions[t].date) <= Ord(analysis_date)
    /\ transactions[t].amount - garages[i].monthly_rent \in {-1, 0, 1}

\* some note of outcome i names garage j
NoteNames(i, j) ==
    \E k \in 1..Len(payments[i].notes) :
        garages[j].id \in Range(payments[i].notes[k].garages)

\* C28: amounts match within 0.01 (bound included) while conflicts are
\* found by equality: of two obligations whose amounts differ by 0.01 or
\* 0.02, the earlier one consumes a transaction within 0.01 of both, the
\* later one does not get it, and neither outcome names the other in an
\* amount-conflict note.
C28_ToleranceWithoutConflictNote ==
    \A i, j \in 1..Len(payments) :
        ( /\ i < j
          /\ Abs(garages[i].monthly_rent - garages[j].monthly_rent) \in {1, 2} ) =>
            /\ ~NoteNames(i, j) /\ ~NoteNames(j, i)
            /\ \A a \in DOMAIN amount_conflicts :
                  ~ ( /\ garages[i].id \in Range(amount_conflicts[a])
                      /\ garages[j].id \in Range(amount_conflicts[a]) )
            /\ \A t \in 1..Len(transactions) :
                  ( /\ WithinCent(t, i)
                    /\ transactions[t].amount - garages[j].monthly_rent \in {-1, 0, 1} ) =>
                      /\ selected[i].tx # 0
                      /\ payments[i].status = "RECEIVED"
                      /\ (\A u \in 1..Len(transactions) : WithinCent(u, i) => u = t)
                            => selected[i].tx = t
                      /\ (selected[i].tx = t) => (selected[j].tx # t)

\* amounts 3500.00 and 3500.02 and one transaction of 3500.01: the first
\* obligation is RECEIVED, the second is left without a transaction, and no
\* outcome carries a note naming a garage
C28_Witness ==
    /\ pc = "done"
    /\ Len(garages) = 2 /\ Len(transactions) = 1
    /\ Abs(garages[1].monthly_rent - garages[2].monthly_rent) = 2
    /\ selected[1].tx = 1 /\ selected[2].tx = 0
    /\ payments[1].status = "RECEIVED" /\ payments[2].status # "RECEIVED"
    /\ \A i \in 1..2 : \A k \in 1..Len(payments[i].notes) :
          payments[i].notes[k].garages = <<>>

(***************************************************************************)
(* match_payments under several window settings, set against               *)
(* determine_status called with the payment found                          *)
(***************************************************************************)

\* (search_window_days, grace_period_days): the defaults, two narrower
\* settings and the wider one of test_payment_matcher_custom_windows
WindowMatchers ==
    { DefaultMatcher, PaymentMatcher(3, 1), PaymentMatcher(5, 0), CustomMatcher }

\* (payment_day, monthly_rent in cents)
WindowGarageValues == { <<15, 350000>>, <<16, 350000>> }

\* (date, amount in cents): 10 and 5 days before January 15, one day and four
\* days after it
WindowTxValues ==
    { <<D(2025, 1, 5), 350000>>, <<D(2025, 1, 10), 350000>>,
      <<D(2025, 1, 16), 350000>>, <<D(2025, 1, 19), 350000>> }

InitWindows ==
    /\ garages \in
          { [i \in 1..Len(vs) |-> [id |-> ToString(i), monthly_rent |-> vs[i][2],
                                   payment_day |-> vs[i][1]]] :
            vs \in SeqsUpTo(WindowGarageValues, MaxGarages) }
    /\ transactions \in
          { [i \in 1..Len(vs) |-> [date |-> vs[i][1], amount |-> vs[i][2],
                                   category |-> TxCategory]] :
            vs \in SeqsUpTo(WindowTxValues, MaxTransactions) }
    /\ analysis_date = D(2025, 1, 20)
    /\ target_month = NoDate
    /\ matcher \in WindowMatchers
    /\ amount_conflicts = <<>>
    /\ payments = <<>>
    /\ used_transactions = {}
    /\ selected = <<>>
    /\ status_call = Idle /\ date_call = Idle
    /\ report_call = Idle /\ use_case = Idle
    /\ garage_call = Idle /\ runs = <<>>
    /\ pc = "start"

SpecWindows == InitWindows /\ [][Next]_vars

\* what determine_status returns for the transaction selected for outcome i
ClassifiedAt(i) ==
    DetermineStatus(matcher.grace_period_days, ExpectedOf(i), analysis_date,
                    TRUE, transactions[selected[i].tx].date, FALSE)

\* the status and offset the engine gave outcome i
EngineAt(i) == [status |-> payments[i].status, days |-> payments[i].days_overdue]

\* the selected transaction lies outside [expected - 7, expected + grace]
OutsideClassifierWindow(i) ==
    LET d == Ord(transactions[selected[i].tx].date) - Ord(ExpectedOf(i))
    IN  d < -7 \/ d > matcher.grace_period_days

NextDay(d) ==
    IF d.day < DaysInMonth(d.year, d.month) THEN D(d.year, d.month, d.day + 1)
    ELSE IF d.month < 12 THEN D(d.year, d.month + 1, 1)
    ELSE D(d.year + 1, 1, 1)

InitClock ==
    /\ \E e \in StatusExpectedDates, g \in 0..MaxGrace :
          \E ad \in Near(e) :
             status_call = [grace_period_days |-> g,
                            expected_date |-> e,
                            analysis_date |-> ad,
                            has_payment |-> FALSE,
                            actual_payment_date |-> NoDate,
                            has_multiple_payments |-> FALSE,
                            result |-> NoResult,
                            start |-> ad]
    /\ matcher = Idle /\ garages = <<>> /\ transactions = <<>>
    /\ analysis_date = NoDate /\ target_month = NoDate
    /\ amount_conflicts = <<>> /\ payments = <<>>
    /\ used_transactions = {} /\ selected = <<>>
    /\ date_call = Idle /\ report_call = Idle /\ use_case = Idle
    /\ garage_call = Idle /\ runs = <<>>
    /\ pc = "start"

\* a day passes and determine_status is called with the new date
AdvanceDay ==
    /\ pc = "done"
    /\ StatusOffset < MaxDayOffset
    /\ LET tomorrow == NextDay(status_call.analysis_date)
       IN  status_call' =
              [status_call EXCEPT
                 !.analysis_date = tomorrow,
                 !.result = DetermineStatus(status_call.grace_period_days,
                                            status_call.expected_date,
                                            tomorrow,
                                            status_call.has_payment,
                                            status_call.actual_payment_date,
                                            status_call.has_multiple_payments)]
    /\ UNCHANGED <<matcher, garages, transactions, analysis_date, target_month,
                   amount_conflicts, payments, used_transactions, selected,
                   date_call, report_call, use_case, garage_call, runs, pc>>

NextClock == DetermineStatusCall \/ AdvanceDay

\* days keep passing
SpecClock == InitClock /\ [][NextClock]_vars /\ WF_vars(NextClock)

\* the place of a status on the way NOT_DUE -> PENDING -> OVERDUE
StatusRank(status) ==
    CASE status = "NOT_DUE" -> 1
      [] status = "PENDING" -> 2
      [] status = "OVERDUE" -> 3
      [] OTHER -> 0

====
